---- MODULE Spec2Model ----
(***************************************************************************)
(* Label selection heuristics of sigma.js (src/src/core/labels.ts).        *)
(*                                                                         *)
(* The model follows the renderer's frame loop: the camera is moved        *)
(* (setState), the grid state may be reset, and labelsToDisplayFromGrid is *)
(* called with a list of visible nodes, their display data and the graph's *)
(* degrees.  Numbers are integers: camera ratios are in thousandths        *)
(* (1000 is ratio 1), viewport and graph coordinates are in pixels, and    *)
(* the effective cell size of the grid, a quotient in the source, is kept  *)
(* as an exact fraction.  Node keys are strings, kept as tuples of         *)
(* character codes so that the source's `>` on keys is the lexicographic   *)
(* order it is in JavaScript.                                              *)
(***************************************************************************)
EXTENDS Integers, Sequences, FiniteSets

VARIABLES camera, gridState, call, probe, wiped

vars == <<camera, gridState, call, probe, wiped>>

(***************************************************************************)
(* Bounds of the model.                                                    *)
(***************************************************************************)
\* graph.degree(node) ranges over 1..MaxDegree
MaxDegree == 2

\* the camera zooms out to the ratios 1 + 0.3 * k, k in 1..MaxZoomOut
MaxZoomOut == 1

(***************************************************************************)
(* Constants of the source.                                                *)
(***************************************************************************)
DEFAULT_CELL == [width |-> 250, height |-> 175]

DEFAULT_UNZOOMED_CELL == [width |-> 400, height |-> 300]

\* the value of `return;` in getKey
undefined == -1

(***************************************************************************)
(* Helpers on sequences.                                                   *)
(***************************************************************************)
Range(s) == {s[i] : i \in 1..Len(s)}

Min2(a, b) == IF a < b THEN a ELSE b

\* JavaScript's a > b on two strings: lexicographic on the code units, a
\* proper prefix being the smaller
KeyGreater(a, b) ==
  \/ \E i \in 1..Min2(Len(a), Len(b)) :
        /\ a[i] > b[i]
        /\ \A j \in 1..(i - 1) : a[j] = b[j]
  \/ /\ Len(a) > Len(b)
     /\ \A j \in 1..Len(b) : a[j] = b[j]

(***************************************************************************)
(* class CameraMove                                                        *)
(***************************************************************************)
\* faulty variant: a move along y alone is no pan
CameraMoveAlongXOnly(previous, current) ==
  LET isZooming == current.ratio < previous.ratio
      isUnzooming == current.ratio > previous.ratio
      hasSameRatio == ~isZooming /\ ~isUnzooming
      isPanning == current.x # previous.x
  IN  [isZooming |-> isZooming,
       isUnzooming |-> isUnzooming,
       hasSameRatio |-> hasSameRatio,
       isPanning |-> isPanning,
       isStill |-> hasSameRatio /\ ~isPanning]

CameraMove(previous, current) ==
  LET isZooming == current.ratio < previous.ratio
      isUnzooming == current.ratio > previous.ratio
      hasSameRatio == ~isZooming /\ ~isUnzooming
      isPanning == current.x # previous.x \/ current.y # previous.y
  IN  [isZooming |-> isZooming,
       isUnzooming |-> isUnzooming,
       hasSameRatio |-> hasSameRatio,
       isPanning |-> isPanning,
       isStill |-> hasSameRatio /\ ~isPanning]

(***************************************************************************)
(* class LabelCandidate                                                    *)
(***************************************************************************)
LabelCandidate(key, size, degree, alreadyDisplayed) ==
  [key |-> key, size |-> size, degree |-> degree,
   alreadyDisplayed |-> alreadyDisplayed]

\* faulty variant: the final tie-break by key is left out
isBetterThanWithoutKey(this, other) ==
  LET shown1 == IF this.alreadyDisplayed THEN 1 ELSE 0
      shown2 == IF other.alreadyDisplayed THEN 1 ELSE 0
  IN  IF shown1 > shown2 THEN TRUE
      ELSE IF shown1 < shown2 THEN FALSE
      ELSE IF this.size > other.size THEN TRUE
      ELSE IF this.size < other.size THEN FALSE
      ELSE IF this.degree > other.degree THEN TRUE
      ELSE FALSE

\* faulty variant: the size is compared before the displayed flag
isBetterThanSizeFirst(this, other) ==
  LET shown1 == IF this.alreadyDisplayed THEN 1 ELSE 0
      shown2 == IF other.alreadyDisplayed THEN 1 ELSE 0
  IN  IF this.size > other.size THEN TRUE
      ELSE IF this.size < other.size THEN FALSE
      ELSE IF shown1 > shown2 THEN TRUE
      ELSE IF shown1 < shown2 THEN FALSE
      ELSE IF this.degree > other.degree THEN TRUE
      ELSE IF this.degree < other.degree THEN FALSE
      ELSE IF KeyGreater(this.key, other.key) THEN TRUE
      ELSE FALSE

isBetterThan(this, other) ==
  LET shown1 == IF this.alreadyDisplayed THEN 1 ELSE 0
      shown2 == IF other.alreadyDisplayed THEN 1 ELSE 0
  IN  IF shown1 > shown2 THEN TRUE
      ELSE IF shown1 < shown2 THEN FALSE
      ELSE IF this.size > other.size THEN TRUE
      ELSE IF this.size < other.size THEN FALSE
      ELSE IF this.degree > other.degree THEN TRUE
      ELSE IF this.degree < other.degree THEN FALSE
      ELSE IF KeyGreater(this.key, other.key) THEN TRUE
      ELSE FALSE

(***************************************************************************)
(* class SpatialGridIndex                                                  *)
(*                                                                         *)
(* cellWidth = cell.width + (width % cell.width) / floor(width/cell.width) *)
(* is the fraction (cell.width * q + r) / q; q = 0 makes it Infinity in    *)
(* the source, kept here as a fraction of denominator 0.                   *)
(***************************************************************************)
Fraction(num, den) == [num |-> num, den |-> den]

\* floor(p / f) for a fraction f; p / Infinity is (plus or minus) 0
FloorDiv(p, f) == IF f.den = 0 THEN 0 ELSE (p * f.den) \div f.num

EmptyItems == [k \in {} |-> 0]

\* columns = width / cellWidth + 2: cellWidth being width / q, the quotient is
\* the whole number q (0 when cellWidth is Infinity)
SpatialGridIndex(dimensions, cell) ==
  LET cellWidthRemainder == dimensions.width % cell.width
      cellHeightRemainder == dimensions.height % cell.height
      qw == dimensions.width \div cell.width
      qh == dimensions.height \div cell.height
      cellWidth == Fraction(cell.width * qw + cellWidthRemainder, qw)
      cellHeight == Fraction(cell.height * qh + cellHeightRemainder, qh)
  IN  [width |-> dimensions.width,
       height |-> dimensions.height,
       cellWidth |-> cellWidth,
       cellHeight |-> cellHeight,
       columns |-> FloorDiv(dimensions.width, cellWidth) + 2,
       rows |-> FloorDiv(dimensions.height, cellHeight) + 2,
       items |-> EmptyItems,
       additionalItems |-> <<>>]

\* the column and the row of a position, offset by one for the fringe
Column(index, pos) == FloorDiv(pos.x, index.cellWidth) + 1

Row(index, pos) == FloorDiv(pos.y, index.cellHeight) + 1

\* faulty variant: a position one cell past the far fringe still has a key
getKeyPastFringe(index, pos) ==
  LET x == Column(index, pos)
      y == Row(index, pos)
  IN  IF x < 0 \/ y < 0 \/ x > index.columns \/ y > index.rows
      THEN undefined
      ELSE x * index.columns + y

getKey(index, pos) ==
  LET x == Column(index, pos)
      y == Row(index, pos)
  IN  IF x < 0 \/ y < 0 \/ x >= index.columns \/ y >= index.rows
      THEN undefined
      ELSE x * index.columns + y

isWithinBounds(index, pos) == getKey(index, pos) # undefined

set(index, key, candidate) ==
  [index EXCEPT !.items =
     [k \in (DOMAIN index.items) \cup {key} |->
        IF k = key THEN candidate ELSE index.items[k]]]

\* get(key) !== undefined
has(index, key) == key \in DOMAIN index.items

get(index, key) == index.items[key]

keep(index, candidate) ==
  [index EXCEPT !.additionalItems = Append(index.additionalItems, candidate)]

\* `for (const k in this.items)` visits integer keys in ascending order
RECURSIVE CollectItems(_, _)
CollectItems(items, keys) ==
  IF keys = {} THEN <<>>
  ELSE LET k == CHOOSE m \in keys : \A o \in keys : m <= o
       IN  <<items[k].key>> \o CollectItems(items, keys \ {k})

\* collect((c) => c.key)
collect(index) ==
  CollectItems(index.items, DOMAIN index.items)
    \o [i \in 1..Len(index.additionalItems) |-> index.additionalItems[i].key]

(***************************************************************************)
(* class LabelGridState.  displayedLabels is a JavaScript Set: it keeps    *)
(* its members in insertion order, without duplicates.                     *)
(***************************************************************************)
NewLabelGridState == [initialized |-> FALSE, displayedLabels |-> <<>>]

\* faulty variant: the displayed labels are not cleared
resetWithoutClear(state) ==
  [initialized |-> FALSE, displayedLabels |-> state.displayedLabels]

reset(state) == [initialized |-> FALSE, displayedLabels |-> <<>>]

reuse(state) == state.displayedLabels

SetAdd(s, x) == IF x \in Range(s) THEN s ELSE Append(s, x)

RECURSIVE AddAll(_, _)
AddAll(s, nodes) ==
  IF nodes = <<>> THEN s ELSE AddAll(SetAdd(s, Head(nodes)), Tail(nodes))

\* faulty variant: the set is not cleared before the nodes are added
updateWithoutClear(state, nodes) ==
  [initialized |-> TRUE, displayedLabels |-> AddAll(state.displayedLabels, nodes)]

update(state, nodes) ==
  [initialized |-> TRUE, displayedLabels |-> AddAll(<<>>, nodes)]

labelIsShown(state, node) == node \in Range(state.displayedLabels)

(***************************************************************************)
(* Camera.  A camera holds its state and, once it has been moved, its      *)
(* previous state.                                                         *)
(***************************************************************************)
CameraState(x, y, ratio) == [x |-> x, y |-> y, ratio |-> ratio]

\* a camera that was never moved: getPreviousState() is null
NewCamera(state) ==
  [state |-> state, previousState |-> state, hasPrevious |-> FALSE,
   animated |-> FALSE]

\* camera.setState(state), also the step of an animation
setState(cam, state, animated) ==
  [state |-> state, previousState |-> cam.state, hasPrevious |-> TRUE,
   animated |-> animated]

\* camera.framedGraphToViewport(dimensions, data): the pan offset, then the
\* zoom ratio; the camera's position is shown at the centre of the frame
framedGraphToViewport(cameraState, dimensions, data) ==
  [x |-> dimensions.width \div 2
           + ((data.x - cameraState.x) * 1000) \div cameraState.ratio,
   y |-> dimensions.height \div 2
           + ((data.y - cameraState.y) * 1000) \div cameraState.ratio]

(***************************************************************************)
(* labelsToDisplayFromGrid                                                 *)
(***************************************************************************)
\* `cell: Dimensions | null`
NullCell == [width |-> 0, height |-> 0]

\* Math.trunc(cameraState.ratio * 100) % 5 !== 0
OffQuantum(cameraState) == ((cameraState.ratio * 100) \div 1000) % 5 # 0

\* faulty variant: a still camera does not reuse the labels
ReusePathWithoutStill(cam, state) ==
  IF cam.hasPrevious
  THEN LET cameraMove == CameraMove(cam.previousState, cam.state)
       IN  IF (cameraMove.isZooming \/ cameraMove.isUnzooming)
                /\ OffQuantum(cam.state)
           THEN "quantized"
           ELSE "recompute"
  ELSE IF state.initialized THEN "unmoved" ELSE "recompute"

\* faulty variant: a camera that never moved does not reuse the labels
ReusePathWithoutUnmoved(cam, state) ==
  IF cam.hasPrevious
  THEN LET cameraMove == CameraMove(cam.previousState, cam.state)
       IN  IF state.initialized /\ cameraMove.isStill THEN "still"
           ELSE IF (cameraMove.isZooming \/ cameraMove.isUnzooming)
                     /\ OffQuantum(cam.state)
                THEN "quantized"
           ELSE "recompute"
  ELSE "recompute"

\* faulty variant: only zooming is quantized, unzooming is not
ReusePathZoomingOnly(cam, state) ==
  IF cam.hasPrevious
  THEN LET cameraMove == CameraMove(cam.previousState, cam.state)
       IN  IF state.initialized /\ cameraMove.isStill THEN "still"
           ELSE IF cameraMove.isZooming /\ OffQuantum(cam.state)
                THEN "quantized"
           ELSE "recompute"
  ELSE IF state.initialized THEN "unmoved" ELSE "recompute"

\* the branch that returns gridState.reuse(), or "recompute"
ReusePath(cam, state) ==
  IF cam.hasPrevious
  THEN LET cameraMove == CameraMove(cam.previousState, cam.state)
       IN  IF state.initialized /\ cameraMove.isStill THEN "still"
           ELSE IF (cameraMove.isZooming \/ cameraMove.isUnzooming)
                     /\ OffQuantum(cam.state)
                THEN "quantized"
           ELSE "recompute"
  ELSE IF state.initialized THEN "unmoved" ELSE "recompute"

OnlyPanning(cam) ==
  /\ cam.hasPrevious
  /\ LET cameraMove == CameraMove(cam.previousState, cam.state)
     IN  cameraMove.hasSameRatio /\ cameraMove.isPanning

CellToUse(cell, cameraState) ==
  IF cameraState.ratio >= 1300 THEN DEFAULT_UNZOOMED_CELL
  ELSE IF cell # NullCell THEN cell
  ELSE DEFAULT_CELL

\* faulty variant: the last candidate of a cell takes it
GeneralCaseLastWins(index, key, newCandidate) == set(index, key, newCandidate)

\* faulty variant: the candidate that loses its cell is kept aside
GeneralCaseKeepingLoser(index, key, newCandidate) ==
  IF ~has(index, key) THEN set(index, key, newCandidate)
  ELSE IF isBetterThan(newCandidate, get(index, key))
  THEN keep(set(index, key, newCandidate), get(index, key))
  ELSE keep(index, newCandidate)

\* faulty variant: the comparison is the wrong way round
GeneralCaseWorstWins(index, key, newCandidate) ==
  IF ~has(index, key) \/ isBetterThan(get(index, key), newCandidate)
  THEN set(index, key, newCandidate)
  ELSE index

\* the general case: one label per cell, the best candidate
GeneralCase(index, key, newCandidate) ==
  IF ~has(index, key) \/ isBetterThan(newCandidate, get(index, key))
  THEN set(index, key, newCandidate)
  ELSE index

\* faulty variant: of two displayed candidates of a cell the loser is dropped
PanningCaseDroppingLoser(index, key, newCandidate, wasWithinBounds) ==
  IF ~newCandidate.alreadyDisplayed /\ wasWithinBounds THEN index
  ELSE IF ~has(index, key) \/ isBetterThan(newCandidate, get(index, key))
  THEN set(index, key, newCandidate)
  ELSE index

\* faulty variant: a candidate that was within bounds before the pan is not
\* skipped
PanningCaseWithoutSkip(index, key, newCandidate, wasWithinBounds) ==
  IF ~has(index, key) THEN set(index, key, newCandidate)
  ELSE LET currentCandidate == get(index, key)
       IN  IF currentCandidate.alreadyDisplayed /\ newCandidate.alreadyDisplayed
           THEN IF isBetterThan(newCandidate, currentCandidate)
                THEN keep(set(index, key, newCandidate), currentCandidate)
                ELSE keep(index, newCandidate)
           ELSE IF isBetterThan(newCandidate, currentCandidate)
                THEN set(index, key, newCandidate)
                ELSE index

\* faulty variant: a displayed candidate does not take the cell of an occupant
\* that was not displayed
PanningCaseOccupantStays(index, key, newCandidate, wasWithinBounds) ==
  IF ~newCandidate.alreadyDisplayed /\ wasWithinBounds THEN index
  ELSE IF ~has(index, key) THEN set(index, key, newCandidate)
  ELSE LET currentCandidate == get(index, key)
       IN  IF currentCandidate.alreadyDisplayed /\ newCandidate.alreadyDisplayed
           THEN IF isBetterThan(newCandidate, currentCandidate)
                THEN keep(set(index, key, newCandidate), currentCandidate)
                ELSE keep(index, newCandidate)
           ELSE index

\* faulty variant: the candidate that takes the cell of a displayed occupant
\* is kept aside as well
PanningCaseKeepingWinner(index, key, newCandidate, wasWithinBounds) ==
  IF ~newCandidate.alreadyDisplayed /\ wasWithinBounds THEN index
  ELSE IF ~has(index, key) THEN set(index, key, newCandidate)
  ELSE LET currentCandidate == get(index, key)
       IN  IF currentCandidate.alreadyDisplayed /\ newCandidate.alreadyDisplayed
           THEN IF isBetterThan(newCandidate, currentCandidate)
                THEN keep(keep(set(index, key, newCandidate), currentCandidate),
                          newCandidate)
                ELSE keep(index, newCandidate)
           ELSE IF isBetterThan(newCandidate, currentCandidate)
                THEN set(index, key, newCandidate)
                ELSE index

\* faulty variant: in a mixed pair the candidate that was not displayed wins
PanningCaseNewcomerWins(index, key, newCandidate, wasWithinBounds) ==
  IF ~newCandidate.alreadyDisplayed /\ wasWithinBounds THEN index
  ELSE IF ~has(index, key) THEN set(index, key, newCandidate)
  ELSE LET currentCandidate == get(index, key)
       IN  IF currentCandidate.alreadyDisplayed /\ newCandidate.alreadyDisplayed
           THEN IF isBetterThan(newCandidate, currentCandidate)
                THEN keep(set(index, key, newCandidate), currentCandidate)
                ELSE keep(index, newCandidate)
           ELSE IF ~newCandidate.alreadyDisplayed
                THEN set(index, key, newCandidate)
                ELSE index

\* panning while the ratio remains the same
PanningCase(index, key, newCandidate, wasWithinBounds) ==
  IF ~newCandidate.alreadyDisplayed /\ wasWithinBounds THEN index
  ELSE IF ~has(index, key) THEN set(index, key, newCandidate)
  ELSE LET currentCandidate == get(index, key)
       IN  IF currentCandidate.alreadyDisplayed /\ newCandidate.alreadyDisplayed
           THEN IF isBetterThan(newCandidate, currentCandidate)
                THEN keep(set(index, key, newCandidate), currentCandidate)
                ELSE keep(index, newCandidate)
           ELSE IF isBetterThan(newCandidate, currentCandidate)
                THEN set(index, key, newCandidate)
                ELSE index

\* faulty variant: the displayed flag is read from a state that already holds
\* the candidates chosen so far
ProcessNodeSeeingPartialUpdate(index, node, params, onlyPanning) ==
  LET data == params.cache[node]
      newCandidate == LabelCandidate(node, data.size, params.degree[node],
                                     labelIsShown(update(params.gridState,
                                                         collect(index)), node))
      pos == framedGraphToViewport(params.camera.state, params.dimensions, data)
      key == getKey(index, pos)
  IN  IF key = undefined THEN index
      ELSE IF onlyPanning
      THEN LET previousPos == framedGraphToViewport(params.camera.previousState,
                                                    params.dimensions, data)
           IN  PanningCase(index, key, newCandidate,
                           isWithinBounds(index, previousPos))
      ELSE GeneralCase(index, key, newCandidate)

\* one iteration of the loop over visibleNodes
ProcessNode(index, node, params, onlyPanning) ==
  LET data == params.cache[node]
      newCandidate == LabelCandidate(node, data.size, params.degree[node],
                                     labelIsShown(params.gridState, node))
      pos == framedGraphToViewport(params.camera.state, params.dimensions, data)
      key == getKey(index, pos)
  IN  IF key = undefined THEN index
      ELSE IF onlyPanning
      THEN LET previousPos == framedGraphToViewport(params.camera.previousState,
                                                    params.dimensions, data)
           IN  PanningCase(index, key, newCandidate,
                           isWithinBounds(index, previousPos))
      ELSE GeneralCase(index, key, newCandidate)

RECURSIVE ProcessNodes(_, _, _, _)
ProcessNodes(index, nodes, params, onlyPanning) ==
  IF nodes = <<>> THEN index
  ELSE ProcessNodes(ProcessNode(index, Head(nodes), params, onlyPanning),
                    Tail(nodes), params, onlyPanning)

\* the whole call: what it returns, the grid state it leaves, and what it did
labelsToDisplayFromGrid(params) ==
  LET path == ReusePath(params.camera, params.gridState)
  IN  IF path # "recompute"
      THEN [results |-> reuse(params.gridState),
            gridState |-> params.gridState,
            path |-> path,
            onlyPanning |-> FALSE,
            evaluated |-> 0,
            index |-> SpatialGridIndex(params.dimensions, DEFAULT_CELL)]
      ELSE LET onlyPanning == OnlyPanning(params.camera)
               cellToUse == CellToUse(params.cell, params.camera.state)
               index == ProcessNodes(
                          SpatialGridIndex(params.dimensions, cellToUse),
                          params.visibleNodes, params, onlyPanning)
               results == collect(index)
           IN  [results |-> results,
                gridState |-> update(params.gridState, results),
                path |-> path,
                onlyPanning |-> onlyPanning,
                evaluated |-> Len(params.visibleNodes),
                index |-> index]

(***************************************************************************)
(* The inputs the model draws.                                             *)
(***************************************************************************)
\* node keys "a", "ab", "b"
Keys == {<<97>>, <<97, 98>>, <<98>>}

\* the rendering frame
FrameDimensions == [width |-> 1000, height |-> 1000]

\* display data of a node: a position in the graph and a size.  The first two
\* share a cell of the default grid at ratio 1; the last two lie in two
\* different cells of its fringe, left of the bottom and above the left
NodeData == {[x |-> -400, y |-> -400, size |-> 5],
             [x |-> -350, y |-> -380, size |-> 10],
             [x |-> -600, y |-> 600, size |-> 5],
             [x |-> -400, y |-> -600, size |-> 5]}

\* graph.degree: the graph is the path "ab" - "a" - "b"
GraphDegree == [k \in Keys |-> IF k = <<97>> THEN MaxDegree ELSE 1]

\* ratios 1 and 1.02, and the zoomed out ratios 1.3, 1.6, ...
Ratios == {1000, 1020} \cup {1000 + 300 * k : k \in 1..MaxZoomOut}

\* the camera zooms about the origin, and pans at ratio 1
CameraStates ==
  {CameraState(0, 0, r) : r \in Ratios} \cup {CameraState(400, 0, 1000)}

\* lists of distinct visible nodes
VisibleLists ==
  {s \in UNION {[1..n -> Keys] : n \in 0..Cardinality(Keys)} :
     \A i, j \in DOMAIN s : i # j => s[i] # s[j]}

(***************************************************************************)
(* The frame loop.                                                         *)
(***************************************************************************)
NoCall ==
  [path |-> "idle", onlyPanning |-> FALSE, visibleNodes |-> <<>>,
   cache |-> EmptyItems, degree |-> EmptyItems, before |-> NewLabelGridState,
   results |-> <<>>, evaluated |-> 0,
   index |-> SpatialGridIndex(FrameDimensions, DEFAULT_CELL),
   afterReset |-> "none"]

\* no comparison of candidates is under way
NoProbe == [stage |-> "none"]

\* history of reset(): "none" when the grid state was never reset or was
\* updated since, "labels" when a reset since the last update cleared
\* displayed labels, "fresh" when the resets found none to clear
NotWiped == "none"

Init ==
  /\ camera \in {NewCamera(s) : s \in CameraStates}
  /\ gridState = NewLabelGridState
  /\ call = NoCall
  /\ probe = NoProbe
  /\ wiped = NotWiped

\* the camera is moved, by the user or by a step of an animation
MoveCamera(state, animated) ==
  /\ call = NoCall
  /\ camera' = setState(camera, state, animated)
  /\ call' = NoCall
  /\ UNCHANGED <<gridState, probe, wiped>>

\* gridState.reset(), on a structural change
Reset ==
  /\ call = NoCall
  /\ gridState' = reset(gridState)
  /\ call' = NoCall
  /\ wiped' = IF gridState.displayedLabels # <<>> \/ wiped = "labels"
              THEN "labels" ELSE "fresh"
  /\ UNCHANGED <<camera, probe>>

\* one frame: labelsToDisplayFromGrid on the inputs of the frame
Call(visibleNodes, cache, degree) ==
  LET params == [cache |-> cache, camera |-> camera, cell |-> NullCell,
                 dimensions |-> FrameDimensions, degree |-> degree,
                 gridState |-> gridState, visibleNodes |-> visibleNodes]
      r == labelsToDisplayFromGrid(params)
  IN  /\ call = NoCall
      /\ gridState' = r.gridState
      /\ call' = [path |-> r.path, onlyPanning |-> r.onlyPanning,
                  visibleNodes |-> visibleNodes, cache |-> cache,
                  degree |-> degree, before |-> gridState,
                  results |-> r.results, evaluated |-> r.evaluated,
                  index |-> r.index, afterReset |-> wiped]
      /\ wiped' = IF r.path = "recompute" THEN NotWiped ELSE wiped
      /\ UNCHANGED <<camera, probe>>

\* the frame is over: the renderer has drawn what the call returned
EndFrame ==
  /\ call # NoCall
  /\ call' = NoCall
  /\ UNCHANGED <<camera, gridState, probe, wiped>>

Next ==
  \/ \E s \in CameraStates, a \in BOOLEAN : MoveCamera(s, a)
  \/ Reset
  \/ \E v \in VisibleLists :
       \E cache \in [Range(v) -> NodeData] :
         Call(v, cache, [k \in Range(v) |-> GraphDegree[k]])
  \/ EndFrame

Spec == Init /\ [][Next]_vars

(***************************************************************************)
(* The candidate order on its own: three candidates are drawn and          *)
(* isBetterThan is applied to them.                                        *)
(***************************************************************************)
Sizes == {5, 10}

Degrees == 1..MaxDegree

Candidates ==
  {LabelCandidate(k, s, d, shown) :
     k \in Keys, s \in Sizes, d \in Degrees, shown \in BOOLEAN}

InitOrder ==
  /\ camera = NewCamera(CameraState(0, 0, 1000))
  /\ gridState = NewLabelGridState
  /\ call = NoCall
  /\ wiped = NotWiped
  /\ probe \in {[stage |-> "drawn", a |-> a, b |-> b, c |-> c] :
                  a \in Candidates, b \in Candidates, c \in Candidates}

Compare ==
  /\ probe.stage = "drawn"
  /\ probe' = [stage |-> "compared", a |-> probe.a, b |-> probe.b, c |-> probe.c,
               aa |-> isBetterThan(probe.a, probe.a),
               ab |-> isBetterThan(probe.a, probe.b),
               ba |-> isBetterThan(probe.b, probe.a),
               bc |-> isBetterThan(probe.b, probe.c),
               ac |-> isBetterThan(probe.a, probe.c)]
  /\ UNCHANGED <<camera, gridState, call, wiped>>

NextOrder == Compare

SpecOrder == InitOrder /\ [][NextOrder]_vars

(***************************************************************************)
(* What the last call was given, and what it saw.                          *)
(***************************************************************************)
Called == call # NoCall

\* the parameters of the last call
CallParams ==
  [cache |-> call.cache, camera |-> camera, cell |-> NullCell,
   dimensions |-> FrameDimensions, degree |-> call.degree,
   gridState |-> call.before, visibleNodes |-> call.visibleNodes]

\* the move of the camera the last call classified
Move == CameraMove(camera.previousState, camera.state)

Returned == Range(call.results)

Cached == Range(call.before.displayedLabels)

\* the call did no grid work and returned the stored labels
ReturnedCached ==
  /\ call.evaluated = 0
  /\ Returned = Cached
  /\ gridState = call.before

\* the call evaluated every visible node and stored what it returned
Recomputed ==
  /\ call.path = "recompute"
  /\ call.evaluated = Len(call.visibleNodes)
  /\ gridState.initialized
  /\ Range(gridState.displayedLabels) = Returned

(***************************************************************************)
(* C1: when a previous camera state exists, the move is still and the grid *)
(* state is initialized, the call returns the stored displayed labels,     *)
(* whatever nodes, cache and graph it is given, and evaluates no candidate.*)
(***************************************************************************)
C1_StillReturnsCached ==
  (Called /\ camera.hasPrevious /\ Move.isStill /\ call.before.initialized)
    => ReturnedCached

\* a still frame whose visible nodes differ from the labels it returns
C1_Witness ==
  /\ Called /\ camera.hasPrevious /\ Move.isStill /\ call.before.initialized
  /\ Cached # {}
  /\ Range(call.visibleNodes) # {}
  /\ Range(call.visibleNodes) \cap Cached = {}
  /\ Returned = Cached

(***************************************************************************)
(* C2: when the camera has no previous state, an initialized grid state    *)
(* makes the call return the stored labels without recomputing, and an     *)
(* uninitialized one makes it recompute in the general case.               *)
(***************************************************************************)
C2_UnmovedReturnsCached ==
  (Called /\ ~camera.hasPrevious)
    => IF call.before.initialized
       THEN ReturnedCached
       ELSE Recomputed /\ ~call.onlyPanning

\* a frame of a camera that never moved, after the first frame chose labels
\* that are no longer among the visible nodes
C2_Witness ==
  /\ Called /\ ~camera.hasPrevious /\ call.before.initialized
  /\ Cached # {}
  /\ Range(call.visibleNodes) # {}
  /\ Range(call.visibleNodes) \cap Cached = {}
  /\ Returned = Cached

(***************************************************************************)
(* C3: right after every completed call, recompute or not, the displayed   *)
(* labels of the grid state are, as a set, exactly the node keys the call  *)
(* returned.                                                               *)
(***************************************************************************)
C3_StateEqualsReturned ==
  Called => Range(gridState.displayedLabels) = Returned

\* a recompute that drops a label and adds another
C3_Witness ==
  /\ Called /\ call.path = "recompute"
  /\ Cached \ Returned # {}
  /\ Returned \ Cached # {}
  /\ Range(gridState.displayedLabels) = Returned

(***************************************************************************)
(* C4: the call does not depend on the order of visibleNodes: on any       *)
(* permutation of the list, with everything else the same, it returns the  *)
(* same set of node keys, leaves the same grid state (as a set), and ends  *)
(* with the same canonical occupant in every cell and the same kept        *)
(* candidates.                                                             *)
(***************************************************************************)
Reorderings(v) ==
  {p \in VisibleLists : Len(p) = Len(v) /\ Range(p) = Range(v)}

C4_OrderIndependent ==
  Called =>
    \A p \in Reorderings(call.visibleNodes) :
      LET r == labelsToDisplayFromGrid([CallParams EXCEPT !.visibleNodes = p])
      IN  /\ Range(r.results) = Returned
          /\ r.gridState.initialized = gridState.initialized
          /\ Range(r.gridState.displayedLabels) = Range(gridState.displayedLabels)
          /\ r.index.items = call.index.items
          /\ Range(r.index.additionalItems) = Range(call.index.additionalItems)

\* a panning recompute of three nodes, one of which is kept beside the
\* occupant of its cell and one of which is not returned
C4_Witness ==
  /\ Called /\ call.path = "recompute" /\ call.onlyPanning
  /\ Len(call.visibleNodes) = 3
  /\ call.index.additionalItems # <<>>
  /\ Range(call.visibleNodes) \ Returned # {}

(***************************************************************************)
(* C5: isBetterThan is a strict total order on candidates of pairwise      *)
(* distinct keys: no candidate is better than itself, of two candidates of *)
(* different keys exactly one is better than the other, and it is          *)
(* transitive.                                                             *)
(***************************************************************************)
C5_StrictTotalOrder ==
  probe.stage = "compared" =>
    /\ ~probe.aa
    /\ (probe.a.key # probe.b.key) => (probe.ab # probe.ba)
    /\ (/\ probe.a.key # probe.b.key
        /\ probe.b.key # probe.c.key
        /\ probe.a.key # probe.c.key
        /\ probe.ab /\ probe.bc) => probe.ac

\* three candidates that differ by their keys alone, compared in a chain
C5_Witness ==
  /\ probe.stage = "compared"
  /\ probe.a.key # probe.b.key /\ probe.b.key # probe.c.key
  /\ probe.a.key # probe.c.key
  /\ probe.a.size = probe.b.size /\ probe.b.size = probe.c.size
  /\ probe.a.degree = probe.b.degree /\ probe.b.degree = probe.c.degree
  /\ probe.a.alreadyDisplayed = probe.b.alreadyDisplayed
  /\ probe.b.alreadyDisplayed = probe.c.alreadyDisplayed
  /\ probe.ab /\ probe.bc /\ probe.ac /\ ~probe.ba

(***************************************************************************)
(* The cell of a node in the last call.                                    *)
(***************************************************************************)
ViewportOf(node) ==
  framedGraphToViewport(camera.state, FrameDimensions, call.cache[node])

CellKeyOf(node) == getKey(call.index, ViewportOf(node))

CellOf(node) ==
  <<Column(call.index, ViewportOf(node)), Row(call.index, ViewportOf(node))>>

\* the grid of the last call, before its loop
FreshIndex == [call.index EXCEPT !.items = EmptyItems, !.additionalItems = <<>>]

\* the grid after the first n iterations of the loop
IndexAfter(n) ==
  ProcessNodes(FreshIndex, SubSeq(call.visibleNodes, 1, n), CallParams,
               call.onlyPanning)

(***************************************************************************)
(* C6: at every point of a recompute, every cell key holds at most one     *)
(* canonical candidate, which is a node of that cell, and no node is the   *)
(* occupant of two cells; unless the recompute is a pure pan, nothing is   *)
(* ever kept aside, so no two returned nodes map to the same cell key.     *)
(***************************************************************************)
C6_OnePerCell ==
  (Called /\ call.path = "recompute") =>
    /\ \A n \in 0..Len(call.visibleNodes) :
         LET index == IndexAfter(n)
         IN  /\ \A k \in DOMAIN index.items : CellKeyOf(index.items[k].key) = k
             /\ \A k1, k2 \in DOMAIN index.items :
                  index.items[k1].key = index.items[k2].key => k1 = k2
             /\ ~call.onlyPanning => index.additionalItems = <<>>
    /\ IndexAfter(Len(call.visibleNodes)) = call.index
    /\ ~call.onlyPanning =>
         \A i, j \in 1..Len(call.results) :
           CellKeyOf(call.results[i]) = CellKeyOf(call.results[j]) => i = j

\* a recompute that is no pure pan, of three nodes of which two share a cell
C6_Witness ==
  /\ Called /\ call.path = "recompute" /\ ~call.onlyPanning
  /\ Len(call.visibleNodes) = 3
  /\ Len(call.results) = 2
  /\ \E n, m \in Range(call.visibleNodes) :
       n # m /\ CellKeyOf(n) = CellKeyOf(m) /\ CellKeyOf(n) # undefined

(***************************************************************************)
(* C7: in a recompute that is no pure pan, of the visible nodes that map   *)
(* to one cell key exactly one is returned: the greatest in the order      *)
(* already displayed, then larger size, then larger degree, then larger    *)
(* key.                                                                    *)
(***************************************************************************)
CandidateOf(node) ==
  LabelCandidate(node, call.cache[node].size, call.degree[node], node \in Cached)

\* the order of the candidates, criterion by criterion
Precedes(a, b) ==
  \/ a.alreadyDisplayed /\ ~b.alreadyDisplayed
  \/ /\ a.alreadyDisplayed = b.alreadyDisplayed
     /\ \/ a.size > b.size
        \/ /\ a.size = b.size
           /\ \/ a.degree > b.degree
              \/ a.degree = b.degree /\ KeyGreater(a.key, b.key)

C7_CellWinnerIsMaximum ==
  (Called /\ call.path = "recompute" /\ ~call.onlyPanning) =>
    \A n \in Range(call.visibleNodes) :
      CellKeyOf(n) # undefined =>
        LET rivals == {m \in Range(call.visibleNodes) \ {n} :
                         CellKeyOf(m) = CellKeyOf(n)}
        IN  (n \in Returned) <=>
              (\A m \in rivals : Precedes(CandidateOf(n), CandidateOf(m)))

\* two nodes of one cell, of sizes 10 and 5, neither displayed before: the
\* node of size 10 alone is returned
C7_Witness ==
  /\ Called /\ call.path = "recompute" /\ ~call.onlyPanning
  /\ Cached = {}
  /\ Len(call.visibleNodes) = 2
  /\ \E n, m \in Range(call.visibleNodes) :
       /\ CellOf(n) = CellOf(m) /\ CellKeyOf(n) # undefined
       /\ call.cache[n].size = 10 /\ call.cache[m].size = 5
       /\ KeyGreater(m, n)
       /\ Returned = {n}

(***************************************************************************)
(* C8: in a general-case recompute on a fresh state, every visible node    *)
(* inside the extended frame that is alone in its cell (no other visible   *)
(* node in the same column and row) is returned.                           *)
(***************************************************************************)
C8_AloneInCellSelected ==
  (Called /\ call.path = "recompute" /\ ~call.onlyPanning
     /\ call.before = NewLabelGridState) =>
    \A n \in Range(call.visibleNodes) :
      (/\ CellKeyOf(n) # undefined
       /\ \A m \in Range(call.visibleNodes) \ {n} : CellOf(m) # CellOf(n))
        => n \in Returned

(***************************************************************************)
(* C9: while the camera is zooming and its animation is in progress, the   *)
(* call does no grid work and returns the stored labels, whatever the      *)
(* current ratio.                                                          *)
(***************************************************************************)
C9_ZoomingAnimatedReturnsCached ==
  (Called /\ camera.hasPrevious /\ Move.isZooming /\ camera.animated)
    => ReturnedCached

(***************************************************************************)
(* C10: while the camera is unzooming, its transition is not finished and  *)
(* trunc(ratio * 100) is no multiple of 5, the call returns the stored     *)
(* labels; when trunc(ratio * 100) is a multiple of 5 it recomputes.       *)
(***************************************************************************)
\* trunc(ratio * 100), the ratio being in thousandths
RatioPercent == camera.state.ratio \div 10

C10_UnzoomQuantized ==
  (Called /\ camera.hasPrevious /\ Move.isUnzooming) =>
    IF RatioPercent % 5 # 0
    THEN camera.animated => ReturnedCached
    ELSE Recomputed

\* an unzooming frame off the 5% steps, in mid-transition, whose visible
\* nodes are not the labels it returns
C10_Witness ==
  /\ Called /\ camera.hasPrevious /\ Move.isUnzooming /\ camera.animated
  /\ RatioPercent % 5 # 0
  /\ call.before.initialized
  /\ Cached # {}
  /\ Range(call.visibleNodes) # {}
  /\ Range(call.visibleNodes) \cap Cached = {}
  /\ Returned = Cached

(***************************************************************************)
(* The frame loop when frames keep being rendered: a frame that can be     *)
(* rendered eventually is, and a rendered frame ends.  Nothing obliges the *)
(* camera to move.                                                         *)
(***************************************************************************)
\* the frames of this loop show at most one node
ShortLists == {v \in VisibleLists : Len(v) <= 1}

RenderFrame ==
  \E v \in ShortLists :
    \E cache \in [Range(v) -> NodeData] :
      Call(v, cache, [k \in Range(v) |-> GraphDegree[k]])

NextLive ==
  \/ \E s \in CameraStates, a \in BOOLEAN : MoveCamera(s, a)
  \/ Reset
  \/ RenderFrame
  \/ EndFrame

SpecLive ==
  Init /\ [][NextLive]_vars /\ WF_vars(RenderFrame) /\ WF_vars(EndFrame)

(***************************************************************************)
(* C11: once the camera has reached a state by zooming or unzooming and is *)
(* no longer animated, then, unless the camera is moved again, some later  *)
(* call recomputes the labels against that state, whatever its ratio.      *)
(***************************************************************************)
\* the cameras whose last move was a zoom or an unzoom that has finished
FinishedTransitions ==
  {c \in {setState(NewCamera(p), s, FALSE) : p \in CameraStates, s \in CameraStates} :
     LET cameraMove == CameraMove(c.previousState, c.state)
     IN  cameraMove.isZooming \/ cameraMove.isUnzooming}

C11_RecomputeAfterTransition ==
  \A c \in FinishedTransitions :
    (camera = c) ~> (camera # c \/ (Called /\ call.path = "recompute"))

(***************************************************************************)
(* C12: in every pure-panning recompute, every node that was displayed     *)
(* before the call, is among the visible nodes and is now inside the       *)
(* extended frame is returned, whatever other nodes share its cell.        *)
(***************************************************************************)
C12_NoFlickerOnPan ==
  (Called /\ call.path = "recompute" /\ call.onlyPanning) =>
    \A n \in Cached \cap Range(call.visibleNodes) :
      CellKeyOf(n) # undefined => n \in Returned

\* the position of a node before the pan
PreviousViewportOf(node) ==
  framedGraphToViewport(camera.previousState, FrameDimensions, call.cache[node])

\* a pan in which two displayed nodes share a cell key with a node that enters
\* the extended frame and would win the cell but for their labels; both are
\* returned, one of them kept beside the occupant
C12_Witness ==
  /\ Called /\ call.path = "recompute" /\ call.onlyPanning
  /\ \E a, b, n \in Range(call.visibleNodes) :
       /\ a # b /\ {a, b} \subseteq Cached /\ n \notin Cached
       /\ CellKeyOf(a) # undefined
       /\ CellKeyOf(a) = CellKeyOf(b) /\ CellKeyOf(a) = CellKeyOf(n)
       /\ ~isWithinBounds(call.index, PreviousViewportOf(n))
       /\ Precedes([CandidateOf(n) EXCEPT !.alreadyDisplayed = TRUE], CandidateOf(a))
       /\ {a, b} \subseteq Returned
       /\ n \notin Returned

(***************************************************************************)
(* edgeLabelsToDisplayFromNodes.  The graph is a mixed graph: a set of     *)
(* edges, each with a key, a source, a target and whether it is            *)
(* undirected.  The edges the function collects are kept as a set.         *)
(***************************************************************************)
\* `hoveredNode: NodeKey | null`
NoNode == <<>>

\* the edge of a key
EdgeOf(graph, edgeKey) == CHOOSE e \in graph : e.key = edgeKey

\* graph.edges(node): the keys of all the edges attached to the node
edges(graph, node) ==
  {e.key : e \in {f \in graph : f.source = node \/ f.target = node}}

\* faulty variant: the undirected edges are left out
outboundEdgesDirectedOnly(graph, node) ==
  {e.key : e \in {f \in graph : ~f.undirected /\ f.source = node}}

\* graph.outboundEdges(node): the directed edges leaving the node and the
\* undirected edges attached to it
outboundEdges(graph, node) ==
  {e.key : e \in {f \in graph :
                    \/ ~f.undirected /\ f.source = node
                    \/ f.undirected /\ (f.source = node \/ f.target = node)}}

\* graph.extremities(edge)
extremities(graph, edgeKey) ==
  <<EdgeOf(graph, edgeKey).source, EdgeOf(graph, edgeKey).target>>

\* graph.opposite(node, edge)
opposite(graph, node, edgeKey) ==
  IF EdgeOf(graph, edgeKey).source = node
  THEN EdgeOf(graph, edgeKey).target
  ELSE EdgeOf(graph, edgeKey).source

edgeLabelsToDisplayFromNodes(params) ==
  LET highlightedNodesArray ==
        params.highlightedNodes
          \cup (IF params.hoveredNode # NoNode
                THEN {params.hoveredNode} ELSE {})
      \* the first loop: the edges of the highlighted and hovered nodes
      fromHighlighted ==
        UNION {{edgeKey \in edges(params.graph, key) :
                  LET ext == extremities(params.graph, edgeKey)
                      sourceData == params.nodeDataCache[ext[1]]
                      targetData == params.nodeDataCache[ext[2]]
                      edgeData == params.edgeDataCache[edgeKey]
                  IN  edgeData.hidden /\ sourceData.hidden /\ targetData.hidden}
               : key \in highlightedNodesArray}
      \* the second loop: the outbound edges of the nodes with a label
      fromDisplayed ==
        UNION {{edgeKey \in outboundEdges(params.graph, key) :
                  /\ ~params.edgeDataCache[edgeKey].hidden
                  /\ opposite(params.graph, key, edgeKey)
                       \in params.displayedNodeLabels}
               : key \in params.displayedNodeLabels}
  IN  fromHighlighted \cup fromDisplayed

(***************************************************************************)
(* The edge labels on their own: a graph on the nodes "a" and "b", the     *)
(* hidden flags, and the highlighted, hovered and displayed nodes are      *)
(* drawn, and edgeLabelsToDisplayFromNodes is applied to them.             *)
(***************************************************************************)
EdgeNodes == {<<97>>, <<98>>}

\* a directed edge each way, an undirected edge and a self-loop
EdgePool ==
  {[key |-> "a->b", source |-> <<97>>, target |-> <<98>>, undirected |-> FALSE],
   [key |-> "b->a", source |-> <<98>>, target |-> <<97>>, undirected |-> FALSE],
   [key |-> "a--b", source |-> <<97>>, target |-> <<98>>, undirected |-> TRUE],
   [key |-> "a->a", source |-> <<97>>, target |-> <<97>>, undirected |-> FALSE]}

HiddenFlags == {[hidden |-> h] : h \in BOOLEAN}

EdgeInputs ==
  {[graph |-> g, nodeDataCache |-> nd, edgeDataCache |-> ed,
    displayedNodeLabels |-> d, highlightedNodes |-> h, hoveredNode |-> hov] :
     g \in {gg \in SUBSET EdgePool : gg # {}},
     nd \in [EdgeNodes -> HiddenFlags],
     ed \in [{e.key : e \in EdgePool} -> HiddenFlags],
     d \in SUBSET EdgeNodes,
     h \in SUBSET EdgeNodes,
     hov \in EdgeNodes \cup {NoNode}}

InitEdges ==
  /\ camera = NewCamera(CameraState(0, 0, 1000))
  /\ gridState = NewLabelGridState
  /\ call = NoCall
  /\ wiped = NotWiped
  /\ probe \in {[stage |-> "edges", params |-> i] :
                  i \in {j \in EdgeInputs :
                           \A e \in EdgePool \ j.graph : ~j.edgeDataCache[e.key].hidden}}

DeriveEdgeLabels ==
  /\ probe.stage = "edges"
  /\ probe' = [stage |-> "edgeLabels", params |-> probe.params,
               worthyEdges |-> edgeLabelsToDisplayFromNodes(probe.params)]
  /\ UNCHANGED <<camera, gridState, call, wiped>>

NextEdges == DeriveEdgeLabels

SpecEdges == InitEdges /\ [][NextEdges]_vars

(***************************************************************************)
(* What the derivation of the edge labels was given.                       *)
(***************************************************************************)
EdgesDerived == probe.stage = "edgeLabels"

EdgeHidden(e) == probe.params.edgeDataCache[e.key].hidden

\* an extremity of the edge is the hovered node or is highlighted
TouchesHighlight(e) ==
  \/ probe.params.hoveredNode \in {e.source, e.target}
  \/ {e.source, e.target} \cap probe.params.highlightedNodes # {}

BothDisplayed(e) == {e.source, e.target} \subseteq probe.params.displayedNodeLabels

(***************************************************************************)
(* C13: the edges returned are exactly those a scan of all the edges of    *)
(* the graph selects by the rule: the edge is not hidden, and an extremity *)
(* is hovered or highlighted or both extremities have a displayed label.   *)
(***************************************************************************)
C13_EqualsFullScan ==
  EdgesDerived =>
    probe.worthyEdges =
      {e.key : e \in {f \in probe.params.graph :
                        ~EdgeHidden(f) /\ (TouchesHighlight(f) \/ BothDisplayed(f))}}

(***************************************************************************)
(* C14: no edge whose display data is flagged hidden is returned.          *)
(***************************************************************************)
C14_NoHiddenEdge ==
  EdgesDerived =>
    \A e \in probe.params.graph : e.key \in probe.worthyEdges => ~EdgeHidden(e)

(***************************************************************************)
(* C15: every edge that is not hidden and has an extremity hovered or      *)
(* highlighted is returned, even when no extremity has a displayed label.  *)
(***************************************************************************)
C15_HighlightedEdgeReturned ==
  EdgesDerived =>
    \A e \in probe.params.graph :
      (~EdgeHidden(e) /\ TouchesHighlight(e)) => e.key \in probe.worthyEdges

(***************************************************************************)
(* C16: every edge that is not hidden and whose two extremities have a     *)
(* displayed label is returned, be it directed, undirected or a self-loop. *)
(***************************************************************************)
C16_DisplayedEdgeReturned ==
  EdgesDerived =>
    \A e \in probe.params.graph :
      (~EdgeHidden(e) /\ BothDisplayed(e)) => e.key \in probe.worthyEdges

\* both nodes have a label, nothing is highlighted or hovered, and the four
\* edges, the inbound and the undirected ones and the self-loop among them,
\* are returned
C16_Witness ==
  /\ EdgesDerived
  /\ probe.params.graph = EdgePool
  /\ probe.params.displayedNodeLabels = EdgeNodes
  /\ probe.params.highlightedNodes = {}
  /\ probe.params.hoveredNode = NoNode
  /\ \A e \in EdgePool : ~EdgeHidden(e)
  /\ probe.worthyEdges = {e.key : e \in EdgePool}

(***************************************************************************)
(* The grid on its own: the dimensions of a frame, a cell and a position   *)
(* are drawn, the SpatialGridIndex is constructed and getKey is applied to *)
(* the position.                                                           *)
(***************************************************************************)
\* frames, some of them narrower or lower than a cell
GridDimensions ==
  {[width |-> w, height |-> h] : w \in {100, 600, 1000}, h \in {100, 700, 1000}}

GridCells == {DEFAULT_CELL, [width |-> 300, height |-> 200]}

\* abscissas: every 50 pixels and the pixel before, and those around a third
\* of 1000 past the fringes
GridXs ==
  {50 * k - d : k \in -9..29, d \in {0, 1}} \cup {-334, -333, 1333, 1334}

\* ordinates around the ends of the fringes
GridYs ==
  {-234, -233, -201, -200, -176, -175, -1, 0, 99, 100, 500,
   874, 875, 933, 934, 1199, 1200}

InitGrid ==
  /\ camera = NewCamera(CameraState(0, 0, 1000))
  /\ gridState = NewLabelGridState
  /\ call = NoCall
  /\ wiped = NotWiped
  /\ probe \in {[stage |-> "grid", dimensions |-> d, cell |-> c,
                 pos |-> [x |-> x, y |-> y]] :
                  d \in GridDimensions, c \in GridCells, x \in GridXs, y \in GridYs}

LocateCell ==
  /\ probe.stage = "grid"
  /\ LET index == SpatialGridIndex(probe.dimensions, probe.cell)
     IN  probe' = [stage |-> "located", dimensions |-> probe.dimensions,
                   cell |-> probe.cell, pos |-> probe.pos, index |-> index,
                   key |-> getKey(index, probe.pos)]
  /\ UNCHANGED <<camera, gridState, call, wiped>>

NextGrid == LocateCell

SpecGrid == InitGrid /\ [][NextGrid]_vars

(***************************************************************************)
(* What the grid was given.                                                *)
(***************************************************************************)
Located == probe.stage = "located"

\* -cellSize <= p < dimension + cellSize, for a cell size that is a fraction,
\* Infinity included
WithinExtended(p, dimension, cellSize) ==
  \/ cellSize.den = 0
  \/ /\ -cellSize.num <= p * cellSize.den
     /\ p * cellSize.den < dimension * cellSize.den + cellSize.num

NarrowFrame == probe.dimensions.width < probe.cell.width

LowFrame == probe.dimensions.height < probe.cell.height

(***************************************************************************)
(* C17: when a dimension of the frame is smaller than that of the cell,    *)
(* the index takes the whole dimension as one cell: the effective cell     *)
(* size is the dimension, there are 3 cells along that axis, and getKey    *)
(* returns a key exactly for the positions within the frame extended by    *)
(* one such cell at each end.                                              *)
(***************************************************************************)
C17_SmallFrameIsOneCell ==
  (Located /\ (NarrowFrame \/ LowFrame)) =>
    LET cellWidth == IF NarrowFrame THEN Fraction(probe.dimensions.width, 1)
                     ELSE probe.index.cellWidth
        cellHeight == IF LowFrame THEN Fraction(probe.dimensions.height, 1)
                      ELSE probe.index.cellHeight
    IN  /\ NarrowFrame =>
             probe.index.cellWidth = cellWidth /\ probe.index.columns = 3
        /\ LowFrame =>
             probe.index.cellHeight = cellHeight /\ probe.index.rows = 3
        /\ (probe.key # undefined) <=>
             /\ WithinExtended(probe.pos.x, probe.dimensions.width, cellWidth)
             /\ WithinExtended(probe.pos.y, probe.dimensions.height, cellHeight)

(***************************************************************************)
(* C18, the cell sizes being exact fractions: getKey returns a key exactly *)
(* when the position lies within the                                       *)
(* frame extended by one effective cell at each end of each axis, and      *)
(* undefined otherwise; there are as many columns and rows as whole cells  *)
(* tile the frame, plus two.                                               *)
(***************************************************************************)
C18_KeyIffWithinExtendedFrame ==
  Located =>
    /\ (probe.key # undefined) <=>
         /\ WithinExtended(probe.pos.x, probe.index.width, probe.index.cellWidth)
         /\ WithinExtended(probe.pos.y, probe.index.height, probe.index.cellHeight)
    /\ probe.index.columns = probe.dimensions.width \div probe.cell.width + 2
    /\ probe.index.rows = probe.dimensions.height \div probe.cell.height + 2

\* a frame of 3 columns of a third of 1000 pixels and 5 rows of 200: the
\* position on the last pixel of the right fringe and the first of the top
\* fringe has a key, in the last column and the first row
C18_Witness ==
  /\ Located
  /\ probe.index.cellWidth = Fraction(1000, 3)
  /\ probe.pos.x = 1333
  /\ probe.pos.y = -200 /\ probe.index.cellHeight = Fraction(1000, 5)
  /\ probe.key # undefined
  /\ Column(probe.index, probe.pos) = probe.index.columns - 1
  /\ Row(probe.index, probe.pos) = 0

(***************************************************************************)
(* C19: the grid state changes only by the update that ends a recompute:   *)
(* on every path that returns the stored labels, initialized and the       *)
(* displayed labels are left as they were, and during a recompute the      *)
(* alreadyDisplayed flag of every candidate is read from the state as it   *)
(* was before the call.                                                    *)
(***************************************************************************)
\* the candidates an index holds
CandidatesIn(index) ==
  {index.items[k] : k \in DOMAIN index.items} \cup Range(index.additionalItems)

C19_StateUpdatedOnlyAtEnd ==
  Called =>
    IF call.path # "recompute"
    THEN gridState = call.before
    ELSE /\ \A n \in 0..Len(call.visibleNodes) :
              \A c \in CandidatesIn(IndexAfter(n)) :
                c.alreadyDisplayed <=> (c.key \in Cached)
         /\ IndexAfter(Len(call.visibleNodes)) = call.index
         /\ gridState = update(call.before, call.results)

\* a recompute that holds a candidate displayed before the call and one that
\* was not, and that changes the displayed labels
C19_Witness ==
  /\ Called /\ call.path = "recompute"
  /\ \E c, d \in CandidatesIn(call.index) :
       c.alreadyDisplayed /\ ~d.alreadyDisplayed
  /\ Cached \ Returned # {}
  /\ gridState # call.before

(***************************************************************************)
(* C20: after reset() the grid state is uninitialized and holds no label,  *)
(* and the next call with a still camera, or a camera that never moved,    *)
(* recomputes, returning and storing what the same call returns and stores *)
(* on a newly constructed state, whatever frames preceded the reset.       *)
(***************************************************************************)
C20_ResetIsFresh ==
  /\ wiped # NotWiped =>
       ~gridState.initialized /\ gridState.displayedLabels = <<>>
  /\ (/\ Called /\ call.afterReset # NotWiped
      /\ ~camera.hasPrevious \/ Move.isStill) =>
       LET fresh == labelsToDisplayFromGrid(
                      [CallParams EXCEPT !.gridState = NewLabelGridState])
       IN  /\ Recomputed
           /\ ~call.onlyPanning
           /\ call.results = fresh.results
           /\ gridState = fresh.gridState

\* labels were displayed, reset() cleared them, and the next frame, of a still
\* camera, chooses one of two nodes of a cell
C20_Witness ==
  /\ Called /\ call.afterReset = "labels"
  /\ camera.hasPrevious /\ Move.isStill
  /\ call.path = "recompute"
  /\ Len(call.visibleNodes) = 2
  /\ Len(call.results) = 1
  /\ gridState.initialized

(***************************************************************************)
(* C21: in a pure-panning recompute, a visible node that was not displayed *)
(* and whose position before the pan was already within the extended      *)
(* frame is not returned, even if its cell is empty.                       *)
(***************************************************************************)
WasWithinBounds(node) == isWithinBounds(call.index, PreviousViewportOf(node))

C21_PanSkipsUndisplayedInside ==
  (Called /\ call.path = "recompute" /\ call.onlyPanning) =>
    \A n \in Range(call.visibleNodes) \ Cached :
      WasWithinBounds(n) => n \notin Returned

\* a pan with a single visible node, not displayed, within the extended frame
\* before and after the pan: nothing is returned
C21_Witness ==
  /\ Called /\ call.path = "recompute" /\ call.onlyPanning
  /\ \E n \in Keys :
       /\ call.visibleNodes = <<n>>
       /\ n \notin Cached
       /\ WasWithinBounds(n)
       /\ CellKeyOf(n) # undefined
  /\ Returned = {}
  /\ call.index.items = EmptyItems

C23_LexicographicOrder ==
  probe.stage = "compared" =>
    /\ probe.ab = Precedes(probe.a, probe.b)
    /\ probe.ba = Precedes(probe.b, probe.a)
    /\ probe.bc = Precedes(probe.b, probe.c)
    /\ probe.ac = Precedes(probe.a, probe.c)
    /\ probe.aa = Precedes(probe.a, probe.a)

\* a displayed candidate beats one that is larger, of higher degree and of
\* greater key, and the latter beats a third, of greater key, by its size
C23_Witness ==
  /\ probe.stage = "compared"
  /\ probe.a.alreadyDisplayed /\ ~probe.b.alreadyDisplayed
  /\ probe.a.size < probe.b.size
  /\ probe.a.degree < probe.b.degree
  /\ KeyGreater(probe.b.key, probe.a.key)
  /\ probe.ab /\ ~probe.ba
  /\ ~probe.c.alreadyDisplayed
  /\ probe.b.size > probe.c.size
  /\ probe.b.degree = probe.c.degree
  /\ KeyGreater(probe.c.key, probe.b.key)
  /\ probe.bc

(***************************************************************************)
(* The classification of camera moves on its own: a previous and a current *)
(* camera state and a grid state are drawn, the move is classified and     *)
(* labelsToDisplayFromGrid is called on one visible node.                  *)
(***************************************************************************)
MoveStates ==
  {CameraState(x, y, r) : x \in {0, 400}, y \in {0, 300}, r \in {1000, 1020, 1300}}

\* a new grid state, and one that displays the node "a"
MoveGridStates == {NewLabelGridState, update(NewLabelGridState, <<<<97>>>>)}

InitMove ==
  /\ camera = NewCamera(CameraState(0, 0, 1000))
  /\ gridState = NewLabelGridState
  /\ call = NoCall
  /\ wiped = NotWiped
  /\ probe \in {[stage |-> "move", previous |-> p, current |-> c, state |-> g] :
                  p \in MoveStates, c \in MoveStates, g \in MoveGridStates}

Classify ==
  /\ probe.stage = "move"
  /\ probe' = [stage |-> "classified", previous |-> probe.previous,
               current |-> probe.current, state |-> probe.state,
               cameraMove |-> CameraMove(probe.previous, probe.current),
               result |-> labelsToDisplayFromGrid(
                 [cache |-> [k \in {<<98>>} |-> [x |-> 0, y |-> 0, size |-> 5]],
                  camera |-> setState(NewCamera(probe.previous), probe.current,
                                      FALSE),
                  cell |-> NullCell, dimensions |-> FrameDimensions,
                  degree |-> [k \in {<<98>>} |-> 1],
                  gridState |-> probe.state, visibleNodes |-> <<<<98>>>>])]
  /\ UNCHANGED <<camera, gridState, call, wiped>>

NextMove == Classify

SpecMove == InitMove /\ [][NextMove]_vars

(***************************************************************************)
(* C24: of isZooming (the ratio decreased), isUnzooming (the ratio         *)
(* increased) and hasSameRatio exactly one is true; isPanning is true iff  *)
(* x or y differs; isStill iff hasSameRatio and not isPanning; a recompute *)
(* follows the pure-panning policy iff hasSameRatio and isPanning.         *)
(***************************************************************************)
C24_MoveClassification ==
  probe.stage = "classified" =>
    LET m == probe.cameraMove
        p == probe.previous
        c == probe.current
        count(b) == IF b THEN 1 ELSE 0
    IN  /\ m.isZooming <=> (c.ratio < p.ratio)
        /\ m.isUnzooming <=> (c.ratio > p.ratio)
        /\ count(m.isZooming) + count(m.isUnzooming) + count(m.hasSameRatio) = 1
        /\ m.isPanning <=> (c.x # p.x \/ c.y # p.y)
        /\ m.isStill <=> (c.ratio = p.ratio /\ c.x = p.x /\ c.y = p.y)
        /\ probe.result.path = "recompute" =>
             (probe.result.onlyPanning
                <=> (c.ratio = p.ratio /\ (c.x # p.x \/ c.y # p.y)))

\* a move along y alone at ratio 1.02: a pan, and the recompute is a
\* pure-panning one
C24_Witness ==
  /\ probe.stage = "classified"
  /\ probe.previous = CameraState(0, 0, 1020)
  /\ probe.current = CameraState(0, 300, 1020)
  /\ probe.cameraMove.isPanning /\ probe.cameraMove.hasSameRatio
  /\ ~probe.cameraMove.isStill
  /\ probe.result.path = "recompute"
  /\ probe.result.onlyPanning

(***************************************************************************)
(* The choice of the cell on its own: a frame, the cell the caller gives   *)
(* (or none) and a camera ratio are drawn, and labelsToDisplayFromGrid     *)
(* builds its index on a new grid state with a camera that never moved.    *)
(***************************************************************************)
SuppliedCells ==
  {NullCell, [width |-> 100, height |-> 100], [width |-> 200, height |-> 150],
   [width |-> 500, height |-> 500]}

\* ratios on both sides of the unzoomed threshold of 1.3
CellRatios == {1000, 1250, 1299, 1300, 1301, 1600}

CellDimensions ==
  {[width |-> w, height |-> h] : w \in {600, 1000}, h \in {700, 1000}}

InitCell ==
  /\ camera = NewCamera(CameraState(0, 0, 1000))
  /\ gridState = NewLabelGridState
  /\ call = NoCall
  /\ wiped = NotWiped
  /\ probe \in {[stage |-> "cell", cell |-> c, ratio |-> r, dimensions |-> d] :
                  c \in SuppliedCells, r \in CellRatios, d \in CellDimensions}

BuildIndex ==
  /\ probe.stage = "cell"
  /\ probe' = [stage |-> "built", cell |-> probe.cell, ratio |-> probe.ratio,
               dimensions |-> probe.dimensions,
               result |-> labelsToDisplayFromGrid(
                 [cache |-> EmptyItems,
                  camera |-> NewCamera(CameraState(0, 0, probe.ratio)),
                  cell |-> probe.cell, dimensions |-> probe.dimensions,
                  degree |-> EmptyItems,
                  gridState |-> NewLabelGridState, visibleNodes |-> <<>>])]
  /\ UNCHANGED <<camera, gridState, call, wiped>>

NextCell == BuildIndex

SpecCell == InitCell /\ [][NextCell]_vars

(***************************************************************************)
(* C25: when the caller gives a cell, the grid of the recompute is built   *)
(* with that cell at every camera ratio; without one it is built with the  *)
(* default 250x175 below the ratio 1.3 and with 400x300 from 1.3 on.       *)
(***************************************************************************)
C25_SuppliedCellIsUsed ==
  probe.stage = "built" =>
    /\ probe.result.path = "recompute"
    /\ probe.result.index =
         SpatialGridIndex(probe.dimensions,
                          IF probe.cell # NullCell THEN probe.cell
                          ELSE IF probe.ratio >= 1300 THEN DEFAULT_UNZOOMED_CELL
                          ELSE DEFAULT_CELL)

(***************************************************************************)
(* The numbers of the source are IEEE 754 doubles.  The frame loop above   *)
(* keeps the cell sizes as exact fractions; what follows computes them as  *)
(* the source does, every division, sum and product rounded to 53          *)
(* significant bits, to the nearest, ties to even.                         *)
(*                                                                         *)
(* A natural number of up to 91 bits is a tuple of 7 limbs of 13 bits, the *)
(* least significant first.  A double that is not negative is num / 2^exp  *)
(* with num such a number, in lowest terms.                                *)
(***************************************************************************)
LimbBase == 2^13

\* a natural number below 2^31 as limbs
BigOf(n) ==
  <<n % LimbBase, (n \div LimbBase) % LimbBase, n \div (LimbBase * LimbBase),
    0, 0, 0, 0>>

\* the limbs i and above of a + b + carry
RECURSIVE AddFrom(_, _, _, _)
AddFrom(a, b, i, carry) ==
  IF i > 7 THEN <<>>
  ELSE LET sum == a[i] + b[i] + carry
       IN  <<sum % LimbBase>> \o AddFrom(a, b, i + 1, sum \div LimbBase)

BigAdd(a, b) == AddFrom(a, b, 1, 0)

\* the limbs i and above of a - b - borrow
RECURSIVE SubFrom(_, _, _, _)
SubFrom(a, b, i, borrow) ==
  IF i > 7 THEN <<>>
  ELSE LET diff == a[i] - b[i] - borrow
       IN  <<(diff + LimbBase) % LimbBase>>
             \o SubFrom(a, b, i + 1, IF diff < 0 THEN 1 ELSE 0)

\* a - b, for a >= b
BigSub(a, b) == SubFrom(a, b, 1, 0)

\* the limbs i and above of a * m + carry
RECURSIVE MulFrom(_, _, _, _)
MulFrom(a, m, i, carry) ==
  IF i > 7 THEN <<>>
  ELSE LET product == a[i] * m + carry
       IN  <<product % LimbBase>> \o MulFrom(a, m, i + 1, product \div LimbBase)

\* a * m, for a natural number m below 2^17
BigMulSmall(a, m) == MulFrom(a, m, 1, 0)

\* a * 2^k
BigShl(a, k) ==
  LET b == BigMulSmall(a, 2^(k % 13))
      n == k \div 13
  IN  SubSeq(<<0, 0, 0, 0, 0, 0, 0>>, 1, n) \o SubSeq(b, 1, 7 - n)

\* the limbs i and above of a / 2
RECURSIVE ShrFrom(_, _)
ShrFrom(a, i) ==
  IF i > 7 THEN <<>>
  ELSE <<a[i] \div 2
           + (IF i < 7 THEN (a[i + 1] % 2) * (LimbBase \div 2) ELSE 0)>>
         \o ShrFrom(a, i + 1)

\* a / 2, rounded down
BigShr1(a) == ShrFrom(a, 1)

\* -1, 0 or 1 as a < b, a = b or a > b, on the limbs i and below
RECURSIVE BigCmpFrom(_, _, _)
BigCmpFrom(a, b, i) ==
  IF i = 0 THEN 0
  ELSE IF a[i] > b[i] THEN 1
  ELSE IF a[i] < b[i] THEN -1
  ELSE BigCmpFrom(a, b, i - 1)

BigCmp(a, b) == BigCmpFrom(a, b, 7)

\* floor(n / d) when it is below 2^13: the greatest i with d * i <= n
RECURSIVE Bisect(_, _, _, _)
Bisect(n, d, lo, hi) ==
  IF hi = lo + 1 THEN lo
  ELSE LET mid == (lo + hi) \div 2
       IN  IF BigCmp(BigMulSmall(d, mid), n) <= 0
           THEN Bisect(n, d, mid, hi)
           ELSE Bisect(n, d, lo, mid)

BigIntDiv(n, d) == Bisect(n, d, 0, LimbBase)

RECURSIVE BitLength(_)
BitLength(i) == IF i = 0 THEN 0 ELSE 1 + BitLength(i \div 2)

\* lowest terms
RECURSIVE Canonical(_)
Canonical(d) ==
  IF d.exp > 0 /\ d.num[1] % 2 = 0
  THEN Canonical([num |-> BigShr1(d.num), exp |-> d.exp - 1])
  ELSE d

\* the bits of the quotient after the first `have` significant ones, m being
\* the quotient so far and r the remainder; at 53 bits the rest is rounded
RECURSIVE RoundBits(_, _, _, _, _)
RoundBits(m, r, d, exp, have) ==
  IF r = BigOf(0) THEN [num |-> m, exp |-> exp]
  ELSE IF have = 53
  THEN LET half == BigCmp(BigShl(r, 1), d)
           up == half > 0 \/ (half = 0 /\ m[1] % 2 = 1)
       IN  [num |-> IF up THEN BigAdd(m, BigOf(1)) ELSE m, exp |-> exp]
  ELSE LET r2 == BigShl(r, 1)
           bit == BigCmp(r2, d) >= 0
           m2 == BigAdd(BigShl(m, 1), BigOf(IF bit THEN 1 ELSE 0))
       IN  RoundBits(m2, IF bit THEN BigSub(r2, d) ELSE r2, d, exp + 1,
                     IF m2 = BigOf(0) THEN 0 ELSE have + 1)

\* the double nearest to n / d
RoundToDouble(n, d) ==
  LET i == BigIntDiv(n, d)
  IN  Canonical(RoundBits(BigOf(i), BigSub(n, BigMulSmall(d, i)), d, 0,
                          BitLength(i)))

\* a natural number as a double
DoubleOf(n) == [num |-> BigOf(n), exp |-> 0]

\* a / b in the source
DoubleDiv(a, b) ==
  IF b.exp >= a.exp
  THEN RoundToDouble(BigShl(a.num, b.exp - a.exp), b.num)
  ELSE RoundToDouble(a.num, BigShl(b.num, a.exp - b.exp))

\* a + n in the source, n a natural number
DoublePlus(a, n) ==
  RoundToDouble(BigAdd(a.num, BigShl(BigOf(n), a.exp)), BigShl(BigOf(1), a.exp))

\* a * n in the source, n a natural number
DoubleTimes(a, n) == RoundToDouble(BigMulSmall(a.num, n), BigShl(BigOf(1), a.exp))

\* Math.floor(a)
DoubleFloor(a) == BigIntDiv(a.num, BigShl(BigOf(1), a.exp))

\* n >= a, n a natural number
AtLeast(n, a) == BigCmp(BigShl(BigOf(n), a.exp), a.num) >= 0

(***************************************************************************)
(* class SpatialGridIndex in doubles, for a frame that is no smaller than  *)
(* the cell.                                                               *)
(***************************************************************************)
\* cell + remainder / Math.floor(dimension / cell)
EffectiveCell(dimension, cell) ==
  DoublePlus(DoubleDiv(DoubleOf(dimension % cell), DoubleOf(dimension \div cell)),
             cell)

\* faulty variant: the remainder is not distributed over the cells
SpatialGridIndexInDoublesWithoutRemainder(dimensions, cell) ==
  LET cellWidth == DoubleOf(cell.width)
      cellHeight == DoubleOf(cell.height)
  IN  [width |-> dimensions.width,
       height |-> dimensions.height,
       cellWidth |-> cellWidth,
       cellHeight |-> cellHeight,
       columns |-> DoublePlus(DoubleDiv(DoubleOf(dimensions.width), cellWidth), 2),
       rows |-> DoublePlus(DoubleDiv(DoubleOf(dimensions.height), cellHeight), 2)]

SpatialGridIndexInDoubles(dimensions, cell) ==
  LET cellWidth == EffectiveCell(dimensions.width, cell.width)
      cellHeight == EffectiveCell(dimensions.height, cell.height)
  IN  [width |-> dimensions.width,
       height |-> dimensions.height,
       cellWidth |-> cellWidth,
       cellHeight |-> cellHeight,
       columns |-> DoublePlus(DoubleDiv(DoubleOf(dimensions.width), cellWidth), 2),
       rows |-> DoublePlus(DoubleDiv(DoubleOf(dimensions.height), cellHeight), 2)]

\* Math.floor(p / cellSize) + 1 for an integer p; the quotient of a negative
\* p is the opposite of that of -p, rounding being symmetric
CellNumber(p, cellSize) ==
  IF p >= 0 THEN DoubleFloor(DoubleDiv(DoubleOf(p), cellSize)) + 1
  ELSE LET quotient == DoubleDiv(DoubleOf(-p), cellSize)
       IN  IF quotient.exp = 0 THEN 1 - DoubleFloor(quotient)
           ELSE -DoubleFloor(quotient)

\* getKey: whether the position has a key, and the key, a double
getKeyInDoubles(index, pos) ==
  LET x == CellNumber(pos.x, index.cellWidth)
      y == CellNumber(pos.y, index.cellHeight)
  IN  IF x < 0 \/ y < 0 \/ AtLeast(x, index.columns) \/ AtLeast(y, index.rows)
      THEN [defined |-> FALSE, x |-> x, y |-> y, key |-> DoubleOf(0)]
      ELSE [defined |-> TRUE, x |-> x, y |-> y,
            key |-> DoublePlus(DoubleTimes(index.columns, x), y)]

(***************************************************************************)
(* The grid in doubles on its own: a frame, a cell and a position are      *)
(* drawn, the index is constructed and getKey is applied to the position.  *)
(***************************************************************************)
DoubleDimensions ==
  {[width |-> w, height |-> h] :
     w \in {600, 1000, 1793, 2817}, h \in {700, 1000, 1229}}

DoubleCells == {DEFAULT_CELL, DEFAULT_UNZOOMED_CELL}

DoublePositions ==
  {[x |-> x, y |-> y] :
     x \in {-300, -250, 0, 999, 1793, 2817, 3100, 3400},
     y \in {-200, 0, 1229, 1500}}

InitDouble ==
  /\ camera = NewCamera(CameraState(0, 0, 1000))
  /\ gridState = NewLabelGridState
  /\ call = NoCall
  /\ wiped = NotWiped
  /\ probe \in {[stage |-> "doubles", dimensions |-> d, cell |-> c, pos |-> pos] :
                  d \in DoubleDimensions, c \in DoubleCells,
                  pos \in DoublePositions}

LocateCellInDoubles ==
  /\ probe.stage = "doubles"
  /\ LET index == SpatialGridIndexInDoubles(probe.dimensions, probe.cell)
     IN  probe' = [stage |-> "located in doubles",
                   dimensions |-> probe.dimensions, cell |-> probe.cell,
                   pos |-> probe.pos, index |-> index,
                   located |-> getKeyInDoubles(index, probe.pos)]
  /\ UNCHANGED <<camera, gridState, call, wiped>>

NextDouble == LocateCellInDoubles

SpecDouble == InitDouble /\ [][NextDouble]_vars

LocatedInDoubles == probe.stage = "located in doubles"

\* cellSize * Math.floor(dimension / cell), as the doubles give it
TiledLength(cellSize, dimension, cell) ==
  DoubleTimes(cellSize, dimension \div cell)

\* the double is at least the integer
DoubleAtLeast(a, n) == BigCmp(a.num, BigShl(BigOf(n), a.exp)) >= 0

\* the exact product cellSize * count is within dimension * 2^-51 of dimension
TilesUpToRounding(cellSize, dimension, cell) ==
  LET product == BigMulSmall(cellSize.num, dimension \div cell)
      exact == BigShl(BigOf(dimension), cellSize.exp)
      gap == IF BigCmp(product, exact) >= 0 THEN BigSub(product, exact)
             ELSE BigSub(exact, product)
  IN  /\ gap[4] = 0 /\ gap[5] = 0 /\ gap[6] = 0 /\ gap[7] = 0
      /\ BigCmp(BigShl(gap, 51), exact) <= 0

\* C26 as stated: for an integer frame no smaller than the integer cell, the
\* effective cells tile the frame exactly: cellWidth * floor(width /
\* cell.width) = width and cellHeight * floor(height / cell.height) = height,
\* with cellWidth >= cell.width and cellHeight >= cell.height.
C26_CellsTileFrameExactly ==
  LocatedInDoubles =>
    /\ TiledLength(probe.index.cellWidth, probe.dimensions.width,
                   probe.cell.width) = DoubleOf(probe.dimensions.width)
    /\ TiledLength(probe.index.cellHeight, probe.dimensions.height,
                   probe.cell.height) = DoubleOf(probe.dimensions.height)
    /\ DoubleAtLeast(probe.index.cellWidth, probe.cell.width)
    /\ DoubleAtLeast(probe.index.cellHeight, probe.cell.height)

\* C26, amended: for an integer frame no smaller than the integer cell, the
\* effective cells tile the frame up to the rounding of the doubles:
\* cellWidth * floor(width / cell.width) is within width * 2^-51 of width and
\* cellHeight * floor(height / cell.height) within height * 2^-51 of height,
\* with cellWidth >= cell.width and cellHeight >= cell.height.
C26_CellsTileFrameUpToRounding ==
  LocatedInDoubles =>
    /\ TilesUpToRounding(probe.index.cellWidth, probe.dimensions.width,
                         probe.cell.width)
    /\ TilesUpToRounding(probe.index.cellHeight, probe.dimensions.height,
                         probe.cell.height)
    /\ DoubleAtLeast(probe.index.cellWidth, probe.cell.width)
    /\ DoubleAtLeast(probe.index.cellHeight, probe.cell.height)

\* a frame whose width the rounded cells miss, within the rounding
C26_Witness ==
  /\ LocatedInDoubles
  /\ probe.dimensions.width = 1793
  /\ probe.cell = DEFAULT_CELL
  /\ TiledLength(probe.index.cellWidth, 1793, 250) # DoubleOf(1793)
  /\ TilesUpToRounding(probe.index.cellWidth, 1793, 250)

\* -cellSize <= p < dimension + cellSize, on the effective cell of the index
WithinExtendedInDoubles(p, dimension, cellSize) ==
  /\ p >= 0 \/ DoubleAtLeast(cellSize, -p)
  /\ p < dimension \/ ~AtLeast(p - dimension, cellSize)

\* C18 on the doubles of the program: getKey returns a key exactly when the
\* position lies within the frame extended by one effective cell at each
\* axis-end, and the column and row counts equal the number of whole cells
\* tiling the frame plus two.
C18_KeyIffWithinExtendedFrameInDoubles ==
  LocatedInDoubles =>
    /\ probe.located.defined <=>
         /\ WithinExtendedInDoubles(probe.pos.x, probe.dimensions.width,
                                    probe.index.cellWidth)
         /\ WithinExtendedInDoubles(probe.pos.y, probe.dimensions.height,
                                    probe.index.cellHeight)
    /\ probe.index.columns
         = DoubleOf(probe.dimensions.width \div probe.cell.width + 2)
    /\ probe.index.rows
         = DoubleOf(probe.dimensions.height \div probe.cell.height + 2)

\* positions every cell or so, fringes included, to compare a position with
OtherPositions ==
  {[x |-> x, y |-> y] :
     x \in {-250, -1, 0, 250, 500, 999, 1249},
     y \in {-200, -1, 0, 200, 400, 600, 800, 999, 1199}}

\* C27: getKey is injective on cells: two positions that have keys have the
\* same key if and only if they fall in the same column and row of the
\* grid extended by its fringes, also when there are more rows than columns.
C27_KeyInjectiveOnCells ==
  Located /\ probe.key # undefined =>
    \A other \in OtherPositions :
      getKey(probe.index, other) # undefined =>
        (getKey(probe.index, other) = probe.key
           <=> /\ Column(probe.index, other) = Column(probe.index, probe.pos)
               /\ Row(probe.index, other) = Row(probe.index, probe.pos))

\* C28: the stored labels are returned without recomputing only when the
\* grid state is initialized; a call on an uninitialized state, new or just
\* reset, recomputes and leaves the state initialized, whatever the move of
\* the camera.
C28_UninitializedRecomputes ==
  Called =>
    /\ call.path # "recompute" => call.before.initialized
    /\ ~call.before.initialized => Recomputed /\ gridState.initialized

\* the same frame once more: the call repeated with the inputs of the last
\* call, on the grid state that call left
SecondCall ==
  labelsToDisplayFromGrid([CallParams EXCEPT !.gridState = gridState])

\* C29: a frame repeated is stable: the call made a second time with the same
\* camera states, dimensions, cell, cache, graph and visible nodes returns
\* the same set of nodes as the first and leaves the grid state equal,
\* whichever branch is taken.
C29_RepeatedFrameIsStable ==
  Called =>
    /\ Range(SecondCall.results) = Returned
    /\ SecondCall.gridState.initialized = gridState.initialized
    /\ Range(SecondCall.gridState.displayedLabels)
         = Range(gridState.displayedLabels)

\* a pan brought in a node that takes a cell and left two displayed nodes in
\* another: the first call changed the state, and the second recomputes too
C29_Witness ==
  /\ Called /\ call.path = "recompute" /\ call.onlyPanning
  /\ Returned # Cached
  /\ Returned \ Cached # {}
  /\ call.index.additionalItems # <<>>
  /\ SecondCall.path = "recompute"
  /\ SecondCall.onlyPanning

RECURSIVE NoDuplicates(_)
NoDuplicates(s) ==
  \/ s = <<>>
  \/ Head(s) \notin Range(Tail(s)) /\ NoDuplicates(Tail(s))

\* C30: every node a recompute returns is one of the visible nodes and its
\* position in the viewport has a cell key, and, the visible nodes being
\* distinct, no node is returned twice.
C30_ReturnedAreVisibleOnce ==
  Called /\ call.path = "recompute" =>
    /\ \A node \in Returned :
         /\ node \in Range(call.visibleNodes)
         /\ CellKeyOf(node) # undefined
    /\ NoDuplicates(call.visibleNodes) => NoDuplicates(call.results)

\* a pan after which a cell holds an occupant and a kept candidate, a visible
\* node beyond the fringes being left out
C30_Witness ==
  /\ Called /\ call.path = "recompute" /\ call.onlyPanning
  /\ call.index.additionalItems # <<>>
  /\ Len(call.results) >= 2
  /\ \E node \in Range(call.visibleNodes) : CellKeyOf(node) = undefined

(***************************************************************************)
(* The density-scaled LabelGrid: candidates are pushed into the cells of a *)
(* grid and organize() sorts every cell with LabelCandidate.compare.       *)
(*                                                                         *)
(* A hash is a 32-bit integer, held as its two 16-bit halves.              *)
(***************************************************************************)
MaxCandidates == 2

Half == 2^16

\* h = ((h << 5) - h + s.charCodeAt(i++)) | 0, that is 31 * h + c modulo 2^32
HashStep(h, c) ==
  LET lo == 31 * h.lo + c
  IN  [hi |-> (31 * h.hi + lo \div Half) % Half, lo |-> lo % Half]

RECURSIVE HashFrom(_, _, _)
HashFrom(s, i, h) ==
  IF i > Len(s) THEN h ELSE HashFrom(s, i + 1, HashStep(h, s[i]))

hashString(s) == HashFrom(s, 1, [hi |-> 0, lo |-> 0])

\* the hash as the signed integer the program compares: its high half, signed
SignedHigh(h) == IF h.hi >= Half \div 2 THEN h.hi - Half ELSE h.hi

\* first.hash > second.hash
HashGreater(a, b) ==
  \/ SignedHigh(a) > SignedHigh(b)
  \/ SignedHigh(a) = SignedHigh(b) /\ a.lo > b.lo

\* new LabelCandidate(key, size) of the density-scaled grid
LabelGridCandidate(key, size) ==
  [key |-> key, hash |-> hashString(key), size |-> size]

compare(first, second) ==
  IF first.size > second.size THEN -1
  ELSE IF first.size < second.size THEN 1
  ELSE IF HashGreater(first.hash, second.hash) THEN 1
  ELSE -1

CeilDiv(a, b) == (a + b - 1) \div b

resizeAndClear(dimensions, cellSize) ==
  [width |-> dimensions.width, height |-> dimensions.height,
   cellSize |-> cellSize,
   columns |-> CeilDiv(dimensions.width, cellSize),
   rows |-> CeilDiv(dimensions.height, cellSize),
   cells |-> <<>>]

getIndex(grid, pos) ==
  (pos.x \div grid.cellSize) * grid.columns + pos.y \div grid.cellSize

add(grid, key, size, pos) ==
  LET candidate == LabelGridCandidate(key, size)
      index == getIndex(grid, pos)
      cell == IF index \in DOMAIN grid.cells THEN grid.cells[index] ELSE <<>>
  IN  [grid EXCEPT !.cells =
         [k \in DOMAIN grid.cells \cup {index} |->
            IF k = index THEN Append(cell, candidate) ELSE grid.cells[k]]]

\* the orders of the cell in which compare puts every candidate before the
\* next.  Array.prototype.sort returns the one such order when the
\* comparator is consistent, and an implementation-defined order otherwise:
\* any of these
SortedOrders(cell) ==
  LET n == Len(cell)
      orders == {p \in [1..n -> 1..n] : \A i, j \in 1..n : i # j => p[i] # p[j]}
  IN  {[i \in 1..n |-> cell[p[i]]] : p \in
         {q \in orders : \A i \in 1..(n - 1) :
            compare(cell[q[i]], cell[q[i + 1]]) < 0}}

\* the grids organize() can leave: every cell sorted
organize(grid) ==
  {[grid EXCEPT !.cells = cells] : cells \in
     {f \in [DOMAIN grid.cells -> UNION {SortedOrders(grid.cells[k]) :
                                           k \in DOMAIN grid.cells}] :
        \A k \in DOMAIN grid.cells : f[k] \in SortedOrders(grid.cells[k])}}

(***************************************************************************)
(* The density-scaled grid on its own: a frame of two cells is filled with *)
(* candidates of distinct keys, then organized.                            *)
(***************************************************************************)
LabelGridDimensions == [width |-> 200, height |-> 100]

LabelCellSize == 100

\* keys over A, B and a, some with equal hashes, and two long keys whose
\* hashes exceed 32 bits before they wrap
HashKeys ==
  {<<a>> : a \in {65, 66, 97}}
    \cup {<<a, b>> : a \in {65, 66}, b \in {65, 66, 97}}
    \cup {<<122, 122, 122, 122, 122, 122, 122>>,
          <<122, 122, 122, 122, 122, 122, 122, 122>>}

LabelSizes == {1, 2}

LabelPositions == {[x |-> 50, y |-> 50], [x |-> 150, y |-> 50]}

CandidatesOf(grid) ==
  UNION {Range(grid.cells[k]) : k \in DOMAIN grid.cells}

CountOf(grid) == Cardinality(CandidatesOf(grid))

InitLabelGrid ==
  /\ camera = NewCamera(CameraState(0, 0, 1000))
  /\ gridState = NewLabelGridState
  /\ call = NoCall
  /\ wiped = NotWiped
  /\ probe = [stage |-> "filling",
              grid |-> resizeAndClear(LabelGridDimensions, LabelCellSize)]

AddCandidate(key, size, pos) ==
  /\ probe.stage = "filling"
  /\ CountOf(probe.grid) < MaxCandidates
  /\ \A c \in CandidatesOf(probe.grid) : c.key # key
  /\ probe' = [stage |-> "filling", grid |-> add(probe.grid, key, size, pos)]
  /\ UNCHANGED <<camera, gridState, call, wiped>>

Organize ==
  /\ probe.stage = "filling"
  /\ \E grid \in organize(probe.grid) :
       probe' = [stage |-> "organized", inserted |-> probe.grid.cells,
                 grid |-> grid]
  /\ UNCHANGED <<camera, gridState, call, wiped>>

NextLabelGrid ==
  \/ \E key \in HashKeys, size \in LabelSizes, pos \in LabelPositions :
       AddCandidate(key, size, pos)
  \/ Organize

SpecLabelGrid == InitLabelGrid /\ [][NextLabelGrid]_vars

\* C31: compare never returns 0 and breaks the tie of equal sizes by the
\* hashed key: for two candidates of distinct keys compare(a, b) and
\* compare(b, a) have opposite signs, also when the hashes of the keys are
\* equal, so that the order organize() gives a cell does not depend on the
\* order in which its candidates were inserted.
C31_CompareOrdersDistinctKeys ==
  probe.stage = "organized" =>
    \A k \in DOMAIN probe.inserted :
      /\ \A a, b \in Range(probe.inserted[k]) :
           a.key # b.key =>
             /\ compare(a, b) # 0
             /\ compare(a, b) = -compare(b, a)
      /\ SortedOrders(probe.inserted[k]) = {probe.grid.cells[k]}

====
